---- MODULE Spec2Model ----
(***************************************************************************)
(* A model of gemini_unit_tests_gen.py: the driver main(), the scoped      *)
(* context cache of create_chat_session, the per-file retry loop           *)
(* chat_request_test_generation, the two reply parsers and the two         *)
(* executors add_test_file and git_commit_test_file.                       *)
(*                                                                         *)
(* Text is modelled as a sequence of tokens.  Every token stands for a     *)
(* fixed non-empty string of characters; the regular expressions of the    *)
(* parsers only ever cut a reply at the start or the end of one of these   *)
(* strings, so matching token sequences is matching the character strings  *)
(* that they spell.                                                        *)
(***************************************************************************)
EXTENDS Integers, Sequences, FiniteSets, TLC

(* ------------------------------ tokens -------------------------------- *)

NL == "\n"
SP == " "
KW_WRITE == "WRITE_TEST_FILE:"
KW_END_FILE == "END_TEST_FILE"
KW_COMMIT == "COMMIT:"
KW_END_MSG == "END_COMMIT_MESSAGE"
TEST == "test"
GEMINI == "_gemini_"
TXT == "a"
DIR == "tests/"

\* the characters the class \s of the regular expressions matches
IsSpace(t) == t \in {NL, SP}

Max(S) == CHOOSE x \in S : \A y \in S : y <= x
Min(S) == CHOOSE x \in S : \A y \in S : x <= y

\* s[from..to], the empty sequence when to < from
Slice(s, from, to) == [k \in 1..(to - from + 1) |-> s[from + k - 1]]

\* Python's None, and the truth value Python gives a parser's result
None == <<>>
Truthy(x) == x # None

(* ------------------------------ parsers ------------------------------- *)

\* r'.*WRITE_TEST_FILE:\s+([^\n\s]+)\n(.+?)\nEND_TEST_FILE.*' under re.match
\* with re.DOTALL.  A match is a choice of
\*   i  the position of the keyword         (.* is greedy: the last one)
\*   a  the last position of \s+            (greedy: the longest)
\*   b  the last position of group 1        (greedy: the longest)
\*   c  the last position of group 2        (.+? is lazy: the shortest)
\* and the backtracking matcher returns the first match in that order.
parse_add_file_command(input_string) ==
    LET s == input_string
        n == Len(s)
        Cs(b) == {c \in (b + 2)..(n - 2) : s[c + 1] = NL /\ s[c + 2] = KW_END_FILE}
        Bs(a) == {b \in (a + 1)..(n - 1) :
                    /\ \A k \in (a + 1)..b : ~IsSpace(s[k])
                    /\ s[b + 1] = NL
                    /\ Cs(b) # {}}
        As(i) == {a \in (i + 1)..n :
                    /\ \A k \in (i + 1)..a : IsSpace(s[k])
                    /\ Bs(a) # {}}
        Is == {i \in 1..n : s[i] = KW_WRITE /\ As(i) # {}}
    IN  IF Is = {} THEN None
        ELSE LET i == Max(Is)
                 a == Max(As(i))
                 b == Max(Bs(a))
                 c == Min(Cs(b))
             IN  <<Slice(s, a + 1, b), Slice(s, b + 2, c)>>

\* r'.*COMMIT:\s+([^\n]+_gemini_[^\n\s]+)\n(.+?)\nEND_COMMIT_MESSAGE.*'
\* under re.match with re.DOTALL.  A match is a choice of
\*   i  the position of the keyword         (greedy: the last one)
\*   a  the last position of \s+            (greedy: the longest)
\*   g  the position of _gemini_            ([^\n]+ is greedy: the last one)
\*   b  the last position of group 1        (greedy: the longest)
\*   c  the last position of group 2        (lazy: the shortest)
parse_commit_command(input_string) ==
    LET s == input_string
        n == Len(s)
        Cs(b) == {c \in (b + 2)..(n - 2) : s[c + 1] = NL /\ s[c + 2] = KW_END_MSG}
        Bs(g) == {b \in (g + 1)..(n - 1) :
                    /\ \A k \in (g + 1)..b : ~IsSpace(s[k])
                    /\ s[b + 1] = NL
                    /\ Cs(b) # {}}
        Gs(a) == {g \in (a + 2)..n :
                    /\ s[g] = GEMINI
                    /\ \A k \in (a + 1)..(g - 1) : s[k] # NL
                    /\ Bs(g) # {}}
        As(i) == {a \in (i + 1)..n :
                    /\ \A k \in (i + 1)..a : IsSpace(s[k])
                    /\ Gs(a) # {}}
        Is == {i \in 1..n : s[i] = KW_COMMIT /\ As(i) # {}}
    IN  IF Is = {} THEN None
        ELSE LET i == Max(Is)
                 a == Max(As(i))
                 g == Max(Gs(a))
                 b == Max(Bs(g))
                 c == Min(Cs(b))
             IN  <<Slice(s, a + 1, b), Slice(s, b + 2, c)>>

\* the check with the marker of the COMMIT pattern: '_gemini_' in test_file_path
HasGeminiOnly(path) == \E k \in 1..Len(path) : path[k] = GEMINI

\* 'test_gemini_' in test_file_path
HasTestGeminiMarker(path) ==
    \E k \in 1..(Len(path) - 1) : path[k] = TEST /\ path[k + 1] = GEMINI

(* --------------------- configuration and inputs ----------------------- *)

SINGLE_FILE_GENERATION_ATTEMPTS_LIMIT == 5
USE_CONTEXT_CACHE == TRUE

\* the number of target files of the run
NumFiles == 2
\* the largest exit status an external command returns
MaxExit == 1

FileNames == <<"f1.py", "f2.py", "f3.py", "f4.py">>
FILES_TO_TEST == SubSeq(FileNames, 1, NumFiles)

ExitCodes == 0..MaxExit
StderrTexts == {"", "Traceback"}
\* what `coverage annotate` leaves in <path>,cover
CoverTexts == {"> x = 1", "! x = 1"}

\* paths the agent names: two that carry test_gemini_, one that carries
\* neither test_gemini_ nor _gemini_, one that carries _gemini_ alone
PathGemini1 == <<DIR, TEST, GEMINI, TXT>>
PathGemini2 == <<DIR, TEST, GEMINI, TXT, TXT>>
PathPlain == <<DIR, TEST, TXT>>
PathOther == <<DIR, TXT, GEMINI, TXT>>
Body1 == <<TXT>>
Body2 == <<TXT, NL, NL, TXT, SP, TXT>>

WriteBlock(path, body) ==
    <<KW_WRITE, SP>> \o path \o <<NL>> \o body \o <<NL, KW_END_FILE>>
CommitBlock(path, message) ==
    <<KW_COMMIT, SP>> \o path \o <<NL>> \o message \o <<NL, KW_END_MSG>>

\* replies that hold a WRITE_TEST_FILE: block and a COMMIT: block
BothBlockReplies ==
    { WriteBlock(PathGemini1, Body1) \o <<NL>> \o CommitBlock(PathGemini1, Body1),
      CommitBlock(PathGemini1, Body2) \o <<NL>> \o WriteBlock(PathGemini2, Body1),
      <<TXT, NL>> \o WriteBlock(PathPlain, Body1) \o <<NL>>
          \o CommitBlock(PathGemini1, Body1) \o <<NL, TXT>> }

\* replies that hold a WRITE_TEST_FILE: block alone
WriteReplies ==
    { WriteBlock(PathGemini1, Body1),
      <<TXT, SP, TXT, NL>> \o WriteBlock(PathGemini1, Body2) \o <<NL, TXT, SP, TXT>>,
      WriteBlock(PathGemini2, Body1) \o <<NL, TXT, NL, KW_END_FILE, NL, TXT>>,
      WriteBlock(PathPlain, Body1),
      WriteBlock(PathOther, Body2) \o <<NL, TXT>>,
      WriteBlock(PathGemini1, Body2) \o <<NL>> \o CommitBlock(PathPlain, Body1),
      <<KW_WRITE, SP>> \o PathGemini1
          \o <<NL, KW_END_FILE, NL, TXT, NL, KW_END_FILE>> }

\* replies that hold a COMMIT: block alone
CommitReplies ==
    { CommitBlock(PathGemini1, Body1),
      <<TXT, NL>> \o CommitBlock(PathGemini2, Body2) \o <<NL, TXT>>,
      CommitBlock(PathPlain, Body1),
      CommitBlock(PathOther, Body1) }

\* replies that hold no complete block
OtherReplies ==
    { <<>>,
      <<TXT, SP, TXT, NL, TXT>>,
      <<KW_WRITE>> \o PathGemini1 \o <<NL>> \o Body1 \o <<NL, KW_END_FILE>>,
      <<KW_WRITE, SP>> \o PathGemini1 \o <<NL, NL, KW_END_FILE>>,
      <<KW_COMMIT, SP>> \o PathGemini1 \o <<NL>> \o Body1 \o <<NL, KW_END_FILE>> }

\* what chat_session.send_message may answer
Replies == BothBlockReplies \cup WriteReplies \cup CommitReplies \cup OtherReplies

(* ------------------------------- state -------------------------------- *)

VARIABLES
    pc,            \* where main() stands
    hasKey,        \* GEMINI_API_KEY is set
    checks,        \* what each call of ensure_no_cache found listed
    cacheCalls,    \* the calls made on the context cache: "create", "delete"
    pending,       \* the exception that is propagating, "none" when none is
    fileIdx,       \* the position in FILES_TO_TEST of the file being processed
    result,        \* how the session of each target file ended
    attempt,       \* the loop variable of chat_request_test_generation
    user_message,  \* the message composed for the next send
    outbound,      \* the message sent in the iteration under way
    command,       \* the reply received in the iteration under way
    lastClass,     \* the branch the previous iteration of the session took
    sent,          \* messages sent to the agent in the session
    effects,       \* writes, test runs and coverage measurements of the session
    gitCalls,      \* the calls of git made in the session, in order
    disk,          \* the test files on disk: path -> content
    lastRun,       \* the unittest run behind user_message, until it is sent
    lastCov,       \* the get_coverage call behind user_message, until it is sent
    warned,        \* the PROMPT warnings sent to the agent in the session
    composedAt     \* the iteration that composed user_message, -1 before the loop

vars == <<pc, hasKey, checks, cacheCalls, pending, fileIdx, result, attempt,
          user_message, outbound, command, lastClass, sent, effects, gitCalls,
          disk, lastRun, lastCov, warned, composedAt>>

driverVars == <<hasKey, checks, cacheCalls>>
sessionVars == <<attempt, user_message, outbound, command, lastClass, sent,
                 effects, gitCalls, lastRun, lastCov, warned, composedAt>>
\* what add_test_file and get_coverage did for the message not yet sent
historyVars == <<lastRun, lastCov>>
NoRun == [ran |-> FALSE, return_code |-> 0, stderr |-> ""]
NoCov == [path |-> <<>>, rcAnnotate |-> 0, coverRead |-> ""]
\* get_coverage, lines 219-226: the path handed over, the status of
\* `coverage annotate`, and what was read from <path>,cover (read only after
\* a status of 0); the status of `coverage run` is dropped at line 218
CoverageCall(path, rcAnnotate, coverText) ==
    [path |-> path, rcAnnotate |-> rcAnnotate,
     coverRead |-> IF rcAnnotate = 0 THEN coverText ELSE ""]

NoEffects == [writes |-> 0, testRuns |-> 0, coverage |-> 0]

(* ------------------------------ messages ------------------------------ *)

\* a message is the sequence of its parts, each a <<keyword, text>> pair
MsgAmbiguous == << <<"ERROR:", "You cannot send WRITE_TEST_FILE and COMMIT commands in a single message.">> >>
MsgBadPrefix == << <<"ERROR:", "test file names must start with the test_gemini_ prefix">> >>
MsgUnrecognized == << <<"", "Unrecognized command, try again">> >>
MsgThanks == << <<"", "Thank you, the test is committed">> >>
PromptOneMore == <<"PROMPT:", "you have one more test creation attempt left.">>
PromptCommentOut == <<"", "please comment out the failing assertions">>
PromptLast == <<"PROMPT:", "this was your last attempt to create this test file">>
NoMessage == <<>>

HasPart(msg, part) == \E k \in 1..Len(msg) : msg[k] = part
HasKeyword(msg, kw) == \E k \in 1..Len(msg) : msg[k][1] = kw
\* the PROMPT warnings a message carries
Warnings(msg) == {w \in {PromptOneMore, PromptLast} : HasPart(msg, w)}

(* ------------------------------ executors ----------------------------- *)

\* the sentinel returned when either stage fails
get_coverage_either_stage(rcRun, rcAnnotate, coverText) ==
    IF rcRun # 0 \/ rcAnnotate # 0 THEN "WHOLE_FILE_NOT_COVERED" ELSE coverText

\* get_coverage: rcRun and rcAnnotate are the exit statuses of `coverage run`
\* and `coverage annotate`, coverText the content of the annotated file
get_coverage(rcRun, rcAnnotate, coverText) ==
    IF rcAnnotate # 0 THEN "WHOLE_FILE_NOT_COVERED" ELSE coverText

\* success taken to mean that the test process ran at all
add_test_file_result_ran(return_code, stderr_str, coverage) ==
    [success |-> return_code >= 0, stderr |-> stderr_str, coverage |-> coverage]

\* the dict add_test_file returns
add_test_file_result(return_code, stderr_str, coverage) ==
    [success |-> return_code = 0, stderr |-> stderr_str, coverage |-> coverage]

\* a file that exists is left as it is (mode 'x' in place of 'w')
write_string_to_file_new_only(d, file_path, file_string) ==
    [p \in (DOMAIN d) \cup {file_path} |->
        IF p \in DOMAIN d THEN d[p] ELSE file_string]

\* write_string_to_file: open(file_path, 'w') truncates or creates
write_string_to_file(d, file_path, file_string) ==
    [p \in (DOMAIN d) \cup {file_path} |->
        IF p = file_path THEN file_string ELSE d[p]]

\* the two warnings one iteration late
StatusMessageLate(att, res) ==
    LET m0 == << <<"TEST_RUN_STATUS:", IF res.success THEN "OK" ELSE "FAILED">> >>
        m1 == IF ~res.success
              THEN Append(m0, <<"FAILURE_MESSAGE:", res.stderr>>) ELSE m0
        m2 == Append(m1, <<"TEST_COVERAGE:", res.coverage>>)
        m3 == IF att = SINGLE_FILE_GENERATION_ATTEMPTS_LIMIT - 2
              THEN IF ~res.success
                   THEN Append(Append(m2, PromptOneMore), PromptCommentOut)
                   ELSE Append(m2, PromptOneMore)
              ELSE m2
        m4 == IF att = SINGLE_FILE_GENERATION_ATTEMPTS_LIMIT - 1
              THEN Append(m3, PromptLast) ELSE m3
    IN  m4

\* a warning that is due is appended at the first write from its index on
StatusMessageFromIndex(att, res) ==
    LET m0 == << <<"TEST_RUN_STATUS:", IF res.success THEN "OK" ELSE "FAILED">> >>
        m1 == IF ~res.success
              THEN Append(m0, <<"FAILURE_MESSAGE:", res.stderr>>) ELSE m0
        m2 == Append(m1, <<"TEST_COVERAGE:", res.coverage>>)
        m3 == IF att >= SINGLE_FILE_GENERATION_ATTEMPTS_LIMIT - 3
                 /\ PromptOneMore \notin warned
                 /\ ~HasPart(user_message, PromptOneMore)
              THEN IF ~res.success
                   THEN Append(Append(m2, PromptOneMore), PromptCommentOut)
                   ELSE Append(m2, PromptOneMore)
              ELSE m2
        m4 == IF att >= SINGLE_FILE_GENERATION_ATTEMPTS_LIMIT - 2
              THEN Append(m3, PromptLast) ELSE m3
    IN  m4

\* the instruction to comment out goes with every report of a failed run
StatusMessageCommentOutAlways(att, res) ==
    LET m0 == << <<"TEST_RUN_STATUS:", IF res.success THEN "OK" ELSE "FAILED">> >>
        m1 == IF ~res.success
              THEN Append(m0, <<"FAILURE_MESSAGE:", res.stderr>>) ELSE m0
        m2 == Append(m1, <<"TEST_COVERAGE:", res.coverage>>)
        m3 == IF att = SINGLE_FILE_GENERATION_ATTEMPTS_LIMIT - 3
              THEN Append(m2, PromptOneMore) ELSE m2
        m4 == IF att = SINGLE_FILE_GENERATION_ATTEMPTS_LIMIT - 2
              THEN Append(m3, PromptLast) ELSE m3
        m5 == IF ~res.success /\ att >= SINGLE_FILE_GENERATION_ATTEMPTS_LIMIT - 3
              THEN Append(m4, PromptCommentOut) ELSE m4
    IN  m5

\* the message composed after add_test_file in iteration `att`
StatusMessage(att, res) ==
    LET m0 == << <<"TEST_RUN_STATUS:", IF res.success THEN "OK" ELSE "FAILED">> >>
        m1 == IF ~res.success
              THEN Append(m0, <<"FAILURE_MESSAGE:", res.stderr>>) ELSE m0
        m2 == Append(m1, <<"TEST_COVERAGE:", res.coverage>>)
        m3 == IF att = SINGLE_FILE_GENERATION_ATTEMPTS_LIMIT - 3
              THEN IF ~res.success
                   THEN Append(Append(m2, PromptOneMore), PromptCommentOut)
                   ELSE Append(m2, PromptOneMore)
              ELSE m2
        m4 == IF att = SINGLE_FILE_GENERATION_ATTEMPTS_LIMIT - 2
              THEN Append(m3, PromptLast) ELSE m3
    IN  m4

\* the first message of a session
InitialMessage(file_to_test, coverage) ==
    << <<"ADD_TEST_FOR:", file_to_test>>, <<"TEST_COVERAGE:", coverage>> >>

\* the if statement without its first branch: a reply that matches both
\* patterns is taken as a WRITE_TEST_FILE
BranchWriteFirst(reply) ==
    LET add_file_args == parse_add_file_command(reply)
        commit_args == parse_commit_command(reply)
    IN  IF Truthy(add_file_args)
        THEN IF ~HasTestGeminiMarker(add_file_args[1])
             THEN "Ineligible" ELSE "WriteTestFile"
        ELSE IF Truthy(commit_args) THEN "Commit"
        ELSE "Neither"

\* a COMMIT is obeyed only after a file was written in the session
BranchGated(reply) ==
    LET add_file_args == parse_add_file_command(reply)
        commit_args == parse_commit_command(reply)
    IN  IF Truthy(add_file_args) /\ Truthy(commit_args) THEN "Ambiguous"
        ELSE IF Truthy(add_file_args)
        THEN IF ~HasTestGeminiMarker(add_file_args[1])
             THEN "Ineligible" ELSE "WriteTestFile"
        ELSE IF Truthy(commit_args) /\ effects.writes > 0 THEN "Commit"
        ELSE "Neither"

\* lines 352-393: the branch of the if statement a reply takes
Branch(reply) ==
    LET add_file_args == parse_add_file_command(reply)
        commit_args == parse_commit_command(reply)
    IN  IF Truthy(add_file_args) /\ Truthy(commit_args) THEN "Ambiguous"
        ELSE IF Truthy(add_file_args)
             THEN IF ~HasTestGeminiMarker(add_file_args[1])
                  THEN "Ineligible" ELSE "WriteTestFile"
        ELSE IF Truthy(commit_args) THEN "Commit"
        ELSE "Neither"

\* the Commit branch without its `return`
ContinuesAlways(branch) == TRUE

\* the branch ends in the for statement again; only the Commit branch ends
\* with `return` (line 391)
Continues(branch) == branch # "Commit"

\* the assertion left out
assert_skipped(return_code) == TRUE

\* `assert return_code == 0` passes
assert_ok(return_code) == return_code = 0

\* ensure_no_cache that reports nothing
ensure_no_cache_silent(listing) == TRUE

\* ensure_no_cache returns (TRUE) or calls fatal (FALSE)
ensure_no_cache(listing) == listing = {}

\* the cache deleted after the yield without try/finally
finally_runs_on_success(exc) == exc = "none"

\* the finally clause of create_chat_session runs whatever leaves the with block
finally_runs(exc) == TRUE

\* the loop over the files stopping one file short
has_next_file_short(idx) == idx + 1 < Len(FILES_TO_TEST)

\* FILES_TO_TEST has an element after the first `idx`
has_next_file(idx) == idx < Len(FILES_TO_TEST)

\* the loop bound off by one: range(0, LIMIT + 1)
range_has_next_inclusive(att) == att + 1 <= SINGLE_FILE_GENERATION_ATTEMPTS_LIMIT

\* range(0, LIMIT) has a value after `att`
range_has_next(att) == att + 1 < SINGLE_FILE_GENERATION_ATTEMPTS_LIMIT

Count(seq, x) == Cardinality({k \in 1..Len(seq) : seq[k] = x})
CacheLive == Count(cacheCalls, "create") > Count(cacheCalls, "delete")

\* what CachedContent.list() returns: the run's own cache while it lives,
\* and the caches other runs left behind
Listing(foreign) ==
    (IF foreign THEN {"other"} ELSE {})
    \cup (IF CacheLive THEN {"unit-test-generator"} ELSE {})

(* ------------------------------- driver ------------------------------- *)

Init ==
    /\ pc = "main"
    /\ hasKey \in BOOLEAN
    /\ checks = <<>>
    /\ cacheCalls = <<>>
    /\ pending = "none"
    /\ fileIdx = 0
    /\ result = [i \in 1..NumFiles |-> "none"]
    /\ attempt = 0
    /\ user_message = NoMessage
    /\ outbound = NoMessage
    /\ command = None
    /\ lastClass = "none"
    /\ sent = 0
    /\ effects = NoEffects
    /\ gitCalls = <<>>
    /\ disk = <<>>
    /\ lastRun = NoRun
    /\ lastCov = NoCov
    /\ warned = {}
    /\ composedAt = -1

\* main, lines 431-435: the credential check
CheckKey ==
    /\ pc = "main"
    /\ pc' = IF hasKey THEN "ensure_first" ELSE "exit_fatal"
    /\ UNCHANGED <<driverVars, pending, fileIdx, result, sessionVars, disk>>

\* main, line 438: ensure_no_cache() before anything is created
EnsureNoCacheFirst ==
    /\ pc = "ensure_first"
    /\ \E foreign \in BOOLEAN :
          /\ checks' = Append(checks, Listing(foreign))
          /\ pc' = IF ensure_no_cache(Listing(foreign))
                   THEN "create" ELSE "exit_fatal"
    /\ UNCHANGED <<hasKey, cacheCalls, pending, fileIdx, result, sessionVars, disk>>

\* main, lines 439-446: upload the sources, enter create_chat_session
CreateChatSession ==
    /\ pc = "create"
    /\ cacheCalls' = IF USE_CONTEXT_CACHE
                     THEN Append(cacheCalls, "create") ELSE cacheCalls
    /\ pc' = "for_files"
    /\ UNCHANGED <<hasKey, checks, pending, fileIdx, result, sessionVars, disk>>

\* main, lines 447-450 and chat_request_test_generation, lines 340-342:
\* the next target file; its session starts with the coverage of the file
StartSession ==
    /\ pc = "for_files"
    /\ has_next_file(fileIdx)
    /\ fileIdx' = fileIdx + 1
    /\ result' = [result EXCEPT ![fileIdx + 1] = "running"]
    /\ \E rcRun \in ExitCodes, rcAnnotate \in ExitCodes, coverText \in CoverTexts :
          /\ user_message' = InitialMessage(FILES_TO_TEST[fileIdx + 1],
                                  get_coverage(rcRun, rcAnnotate, coverText))
          /\ lastCov' = CoverageCall(<<FILES_TO_TEST[fileIdx + 1]>>,
                                      rcAnnotate, coverText)
    /\ lastRun' = NoRun
    /\ warned' = {}
    /\ composedAt' = -1
    /\ attempt' = 0
    /\ outbound' = NoMessage
    /\ command' = None
    /\ lastClass' = "none"
    /\ sent' = 0
    /\ effects' = [NoEffects EXCEPT !.coverage = 1]
    /\ gitCalls' = <<>>
    /\ pc' = "send"
    /\ UNCHANGED <<driverVars, pending, disk>>

\* main, line 447: FILES_TO_TEST is used up, the with block is left
FilesDone ==
    /\ pc = "for_files"
    /\ ~has_next_file(fileIdx)
    /\ pc' = "finally"
    /\ UNCHANGED <<driverVars, pending, fileIdx, result, sessionVars, disk>>

\* create_chat_session, lines 410-411: the cache is deleted, then the
\* exception, if any, goes on to end the program
Finally ==
    /\ pc = "finally"
    /\ cacheCalls' = IF USE_CONTEXT_CACHE /\ finally_runs(pending)
                     THEN Append(cacheCalls, "delete") ELSE cacheCalls
    /\ pc' = IF pending = "none" THEN "ensure_last" ELSE "exit_exception"
    /\ UNCHANGED <<hasKey, checks, pending, fileIdx, result, sessionVars, disk>>

\* main, line 451: ensure_no_cache() after the with block
EnsureNoCacheLast ==
    /\ pc = "ensure_last"
    /\ \E foreign \in BOOLEAN :
          /\ checks' = Append(checks, Listing(foreign))
          /\ pc' = IF ensure_no_cache(Listing(foreign))
                   THEN "done" ELSE "exit_fatal"
    /\ UNCHANGED <<hasKey, cacheCalls, pending, fileIdx, result, sessionVars, disk>>

(* ------------------------------- session ------------------------------ *)

\* an exception leaves chat_request_test_generation and the for loop of main
Raise(exc) ==
    /\ pending' = exc
    /\ result' = [result EXCEPT ![fileIdx] = "Fatal"]
    /\ pc' = "finally"

\* lines 343-351: the message is sent and the reply received
SendMessage ==
    /\ pc = "send"
    /\ \E reply \in Replies : command' = reply
    /\ outbound' = user_message
    /\ warned' = warned \cup Warnings(user_message)
    /\ lastRun' = NoRun
    /\ lastCov' = NoCov
    /\ sent' = sent + 1
    /\ pc' = "dispatch"
    /\ UNCHANGED <<driverVars, pending, fileIdx, result, attempt, user_message,
                   lastClass, effects, gitCalls, disk, composedAt>>

\* line 345: send_message raises (the service is unreachable, the quota is
\* used up, the reply is blocked)
SendRaises ==
    /\ pc = "send"
    /\ Raise("APIError")
    /\ UNCHANGED <<driverVars, fileIdx, sessionVars, disk>>

\* the loop is entered once more to send what the last iteration composed
ForNextAttemptSendsLast ==
    IF attempt < SINGLE_FILE_GENERATION_ATTEMPTS_LIMIT
    THEN /\ attempt' = attempt + 1
         /\ pc' = "send"
         /\ result' = result
    ELSE /\ attempt' = attempt
         /\ pc' = "for_files"
         /\ result' = [result EXCEPT ![fileIdx] = "AttemptsExhausted"]

\* line 343: the for statement takes the next value of range(0, LIMIT), or
\* the function returns when there is none
ForNextAttempt ==
    IF range_has_next(attempt)
    THEN /\ attempt' = attempt + 1
         /\ pc' = "send"
         /\ result' = result
    ELSE /\ attempt' = attempt
         /\ pc' = "for_files"
         /\ result' = [result EXCEPT ![fileIdx] = "AttemptsExhausted"]

\* lines 354-360: both parsers matched
DispatchAmbiguous ==
    /\ pc = "dispatch"
    /\ Branch(command) = "Ambiguous"
    /\ user_message' = MsgAmbiguous
    /\ lastClass' = "Ambiguous"
    /\ composedAt' = attempt
    /\ ForNextAttempt
    /\ UNCHANGED <<driverVars, pending, fileIdx, outbound, command, sent,
                   effects, gitCalls, disk, historyVars, warned>>

\* lines 361-366: a WRITE_TEST_FILE whose path lacks test_gemini_
DispatchIneligible ==
    /\ pc = "dispatch"
    /\ Branch(command) = "Ineligible"
    /\ user_message' = MsgBadPrefix
    /\ lastClass' = "Ineligible"
    /\ composedAt' = attempt
    /\ ForNextAttempt
    /\ UNCHANGED <<driverVars, pending, fileIdx, outbound, command, sent,
                   effects, gitCalls, disk, historyVars, warned>>

\* lines 361-387 and add_test_file, lines 254-263: the file is written, the
\* test module is run, the coverage of the target file is measured again
DispatchWrite ==
    /\ pc = "dispatch"
    /\ Branch(command) = "WriteTestFile"
    /\ LET add_file_args == parse_add_file_command(command)
       IN  /\ disk' = write_string_to_file(disk, add_file_args[1], add_file_args[2])
           /\ \E return_code \in ExitCodes, stderr_str \in StderrTexts,
                 rcRun \in ExitCodes, rcAnnotate \in ExitCodes,
                 coverText \in CoverTexts :
                 /\ user_message' =
                        StatusMessage(attempt,
                            add_test_file_result(return_code, stderr_str,
                                get_coverage(rcRun, rcAnnotate, coverText)))
                 /\ lastRun' = [ran |-> TRUE, return_code |-> return_code,
                                stderr |-> stderr_str]
                 /\ lastCov' = CoverageCall(<<FILES_TO_TEST[fileIdx]>>,
                                             rcAnnotate, coverText)
    /\ effects' = [writes |-> effects.writes + 1,
                   testRuns |-> effects.testRuns + 1,
                   coverage |-> effects.coverage + 1]
    /\ lastClass' = "WriteTestFile"
    /\ composedAt' = attempt
    /\ ForNextAttempt
    /\ UNCHANGED <<driverVars, pending, fileIdx, outbound, command, sent, gitCalls,
                   warned>>

\* lines 388-389: a COMMIT alone; git_commit_test_file is entered
DispatchCommit ==
    /\ pc = "dispatch"
    /\ Branch(command) = "Commit"
    /\ lastClass' = "Commit"
    /\ pc' = "git_add"
    /\ UNCHANGED <<driverVars, pending, fileIdx, result, attempt, user_message,
                   outbound, command, sent, effects, gitCalls, disk, historyVars,
                   warned, composedAt>>

\* lines 392-393: neither parser matched
DispatchUnrecognized ==
    /\ pc = "dispatch"
    /\ Branch(command) = "Neither"
    /\ user_message' = MsgUnrecognized
    /\ lastClass' = "Neither"
    /\ composedAt' = attempt
    /\ ForNextAttempt
    /\ UNCHANGED <<driverVars, pending, fileIdx, outbound, command, sent,
                   effects, gitCalls, disk, historyVars, warned>>

\* git_commit_test_file, lines 276-277: git add, and the assertion on it
GitAdd ==
    /\ pc = "git_add"
    /\ \E return_code \in ExitCodes :
          /\ gitCalls' = Append(gitCalls,
                 [op |-> "add", arg |-> parse_commit_command(command)[1],
                  rc |-> return_code])
          /\ IF assert_ok(return_code)
             THEN pc' = "git_commit" /\ UNCHANGED <<pending, result>>
             ELSE Raise("AssertionError")
    /\ UNCHANGED <<driverVars, fileIdx, attempt, user_message, outbound, command,
                   lastClass, sent, effects, disk, historyVars, warned, composedAt>>

\* git_commit_test_file, lines 278-279, and lines 390-391: git commit, the
\* assertion on it, the acknowledgement and the return
GitCommit ==
    /\ pc = "git_commit"
    /\ \E return_code \in ExitCodes :
          /\ gitCalls' = Append(gitCalls,
                 [op |-> "commit", arg |-> parse_commit_command(command)[2],
                  rc |-> return_code])
          /\ IF assert_ok(return_code)
             THEN /\ user_message' = MsgThanks
                  /\ composedAt' = attempt
                  /\ IF Continues("Commit")
                     THEN ForNextAttempt
                     ELSE /\ result' = [result EXCEPT ![fileIdx] = "Committed"]
                          /\ pc' = "for_files"
                          /\ attempt' = attempt
                  /\ UNCHANGED pending
             ELSE /\ Raise("AssertionError")
                  /\ UNCHANGED <<user_message, attempt, composedAt>>
    /\ UNCHANGED <<driverVars, fileIdx, outbound, command, lastClass,
                   sent, effects, disk, historyVars, warned>>

Next ==
    \/ CheckKey
    \/ EnsureNoCacheFirst
    \/ CreateChatSession
    \/ StartSession
    \/ FilesDone
    \/ Finally
    \/ EnsureNoCacheLast
    \/ SendMessage
    \/ SendRaises
    \/ DispatchAmbiguous
    \/ DispatchIneligible
    \/ DispatchWrite
    \/ DispatchCommit
    \/ DispatchUnrecognized
    \/ GitAdd
    \/ GitCommit

Spec == Init /\ [][Next]_vars

(* ------------------------------- claims ------------------------------- *)

LIMIT == SINGLE_FILE_GENERATION_ATTEMPTS_LIMIT
InSession == pc \in {"send", "dispatch", "git_add", "git_commit"}
Terminal == {"done", "exit_fatal", "exit_exception"}
\* the marker substring of the eligibility rule, as the rule states it
ContainsMarker(path) ==
    \E k \in 1..(Len(path) - 1) : path[k] = "test" /\ path[k + 1] = "_gemini_"
GitOps(op) == {k \in 1..Len(gitCalls) : gitCalls[k].op = op}

\* C1: a session in which no reply is dispatched as a Commit sends exactly
\* LIMIT messages and then ends in AttemptsExhausted, never more; every
\* iteration, whatever branch it took, consumes one attempt: before the send
\* of attempt k exactly k messages were sent, after it k + 1.
C1_Ceiling ==
    /\ sent <= LIMIT
    /\ attempt < LIMIT
    /\ pc = "send" => sent = attempt
    /\ pc \in {"dispatch", "git_add", "git_commit"} => sent = attempt + 1
    /\ (fileIdx >= 1 /\ result[fileIdx] = "AttemptsExhausted")
          => sent = LIMIT /\ gitCalls = <<>>
    /\ (pc = "for_files" /\ fileIdx >= 1 /\ gitCalls = <<>>)
          => result[fileIdx] = "AttemptsExhausted" /\ sent = LIMIT

\* a session is exhausted after an iteration that rejected an ineligible path
C1_Witness ==
    /\ pc = "for_files"
    /\ fileIdx >= 1
    /\ result[fileIdx] = "AttemptsExhausted"
    /\ lastClass = "Ineligible"
    /\ effects.writes >= 1
    /\ sent = LIMIT

\* C2: a Commit whose stage and commit succeed ends the session at once, at
\* any attempt; it is the only way a session ends with attempts left; once a
\* session is Committed no message is sent, nothing is written, run or
\* measured for that file; a session commits at most once.
C2_CommitExit ==
    /\ [](/\ Cardinality(GitOps("commit")) <= 1
          /\ (\E k \in GitOps("commit") : gitCalls[k].rc = 0)
                => /\ result[fileIdx] = "Committed"
                   /\ ~InSession
                   /\ sent = attempt + 1
                   /\ lastClass = "Commit"
          /\ (fileIdx >= 1 /\ result[fileIdx] = "Committed")
                => /\ Len(gitCalls) = 2
                   /\ \A k \in 1..2 : gitCalls[k].rc = 0
          /\ InSession => result[fileIdx] = "running"
          /\ (pc = "for_files" /\ fileIdx >= 1 /\ sent < LIMIT)
                => result[fileIdx] = "Committed")
    /\ [][(fileIdx >= 1 /\ result[fileIdx] = "Committed")
             => /\ result'[fileIdx] = "Committed"
                /\ fileIdx' = fileIdx
                      => /\ sent' = sent
                         /\ effects' = effects
                         /\ gitCalls' = gitCalls
                         /\ disk' = disk
                         /\ outbound' = outbound]_vars

\* a session committed at its first attempt, and the next file is under way
C2_Witness ==
    /\ pc = "for_files"
    /\ fileIdx = 1
    /\ result[1] = "Committed"
    /\ sent = 1
    /\ attempt = 0

\* C3: a reply that holds a WRITE_TEST_FILE: block and a COMMIT: block takes
\* the Ambiguous branch: nothing is written, run, measured, staged or
\* committed, and the next message sent is the one-command-at-a-time error.
C3_Ambiguous ==
    /\ [][(pc = "dispatch" /\ command \in BothBlockReplies)
             => /\ lastClass' = "Ambiguous"
                /\ user_message' = MsgAmbiguous
                /\ disk' = disk
                /\ effects' = effects
                /\ gitCalls' = gitCalls
                /\ pc' \in {"send", "for_files"}]_vars
    /\ []((pc = "dispatch" /\ lastClass = "Ambiguous") => outbound = MsgAmbiguous)

\* the error is on its way to the agent after a reply with both blocks
C3_Witness ==
    /\ pc = "dispatch"
    /\ lastClass = "Ambiguous"
    /\ outbound = MsgAmbiguous
    /\ effects.writes = 0
    /\ gitCalls = <<>>
    /\ disk = <<>>

\* C4: git add and git commit are only ever run for a path that contains
\* test_gemini_, and a COMMIT reply whose path lacks it never takes the
\* Commit branch.
C4_CommitNeedsMarker ==
    /\ \A k \in GitOps("add") : ContainsMarker(gitCalls[k].arg)
    /\ (pc = "git_add" \/ pc = "git_commit")
          => ContainsMarker(parse_commit_command(command)[1])

\* the replies that match the WRITE_TEST_FILE pattern alone, for a path
\* without test_gemini_
WritesWithoutMarker ==
    {reply \in Replies :
        /\ Truthy(parse_add_file_command(reply))
        /\ ~Truthy(parse_commit_command(reply))
        /\ ~ContainsMarker(parse_add_file_command(reply)[1])}

\* C5: a WRITE_TEST_FILE whose path lacks test_gemini_ writes nothing, runs
\* nothing and measures nothing; the message composed is the test_gemini_
\* error and it is the next one sent; the attempt is consumed; no file on
\* disk has a path without the marker.
C5_WriteNeedsMarker ==
    /\ [][(pc = "dispatch" /\ command \in WritesWithoutMarker)
             => /\ disk' = disk
                /\ effects' = effects
                /\ gitCalls' = gitCalls
                /\ user_message' = MsgBadPrefix
                /\ lastClass' = "Ineligible"
                /\ \/ pc' = "send" /\ attempt' = attempt + 1
                   \/ pc' = "for_files" /\ attempt = LIMIT - 1]_vars
    /\ [](/\ \A p \in DOMAIN disk : ContainsMarker(p)
          /\ (pc = "dispatch" /\ lastClass = "Ineligible")
                => outbound = MsgBadPrefix)

\* the error is on its way after a WRITE_TEST_FILE for a path with _gemini_
\* but without test_gemini_, and an earlier eligible file is still on disk
C5_Witness ==
    /\ pc = "dispatch"
    /\ lastClass = "Ineligible"
    /\ outbound = MsgBadPrefix
    /\ effects.writes = 1
    /\ DOMAIN disk = {PathGemini1}

\* C6, as stated: for any replies the one-attempt-left warning is in the
\* message composed in the iteration of attempt index LIMIT-3 and in no
\* other, and the final-attempt warning in that of LIMIT-2 and in no other.
\* (At "send" with attempt k >= 1, user_message is what iteration k-1 composed.)
C6_WarningsAtEveryRun ==
    (pc = "send" /\ attempt >= 1)
       => /\ HasPart(user_message, PromptOneMore) <=> attempt - 1 = LIMIT - 3
          /\ HasPart(user_message, PromptLast) <=> attempt - 1 = LIMIT - 2

\* C6, amended: the one-attempt-left warning is in the message composed in
\* iteration LIMIT-3 if and only if that iteration executed an eligible
\* WRITE_TEST_FILE, and in no message composed at another index; the same
\* for the final-attempt warning and iteration LIMIT-2.  The message composed
\* in iteration k is the one sent at attempt k+1.
C6_WarningsAfterWrite ==
    /\ HasPart(user_message, PromptOneMore) => attempt = LIMIT - 2
    /\ HasPart(user_message, PromptLast) => attempt = LIMIT - 1
    /\ (pc = "send" /\ attempt >= 1)
          => /\ HasPart(user_message, PromptOneMore)
                   <=> (attempt - 1 = LIMIT - 3 /\ lastClass = "WriteTestFile")
             /\ HasPart(user_message, PromptLast)
                   <=> (attempt - 1 = LIMIT - 2 /\ lastClass = "WriteTestFile")
    /\ pc = "dispatch"
          => /\ HasPart(outbound, PromptOneMore)
                   <=> (attempt = LIMIT - 2 /\ lastClass = "WriteTestFile")
             /\ HasPart(outbound, PromptLast)
                   <=> (attempt = LIMIT - 1 /\ lastClass = "WriteTestFile")
             /\ ~(HasPart(outbound, PromptOneMore) /\ HasPart(outbound, PromptLast))

\* the final-attempt warning is on its way, as the message of attempt LIMIT-1
C6_Witness ==
    /\ pc = "dispatch"
    /\ attempt = LIMIT - 1
    /\ HasPart(outbound, PromptLast)
    /\ lastClass = "WriteTestFile"

\* C7: git add comes first and git commit only after git add returned 0; a
\* non-zero status of either raises out of the session: the acknowledgement
\* is not composed, no message is sent any more, no later file is started.
C7_CommitFatal ==
    /\ [](/\ Len(gitCalls) <= 2
          /\ Len(gitCalls) >= 1 => gitCalls[1].op = "add"
          /\ Len(gitCalls) = 2 => gitCalls[2].op = "commit" /\ gitCalls[1].rc = 0
          /\ (\E k \in 1..Len(gitCalls) : gitCalls[k].rc # 0)
                => /\ pending = "AssertionError"
                   /\ result[fileIdx] = "Fatal"
                   /\ pc \in {"finally", "exit_exception"}
                   /\ user_message # MsgThanks
                   /\ \A i \in (fileIdx + 1)..NumFiles : result[i] = "none")
    /\ [][(\E k \in 1..Len(gitCalls) : gitCalls[k].rc # 0)
             => /\ UNCHANGED <<fileIdx, result, sessionVars, disk, pending>>
                /\ pc' \in {"finally", "exit_exception"}]_vars

\* git add failed in the session of a file that is not the last: the run is
\* over and git commit was never called
C7_Witness ==
    /\ pc = "exit_exception"
    /\ Len(gitCalls) = 1
    /\ gitCalls[1].rc # 0
    /\ fileIdx < NumFiles

\* C8: the cache is created once and deleted once for the whole run; it is
\* alive during every session and deleted on every way out of the loop over
\* the files, an assertion failure or a failing send included; no message is
\* sent after the deletion.
C8_Cleanup ==
    /\ [](/\ cacheCalls \in {<<>>, <<"create">>, <<"create", "delete">>}
          /\ (InSession \/ pc \in {"for_files", "finally"})
                => cacheCalls = <<"create">>
          /\ pc \in {"ensure_last", "done", "exit_exception"}
                => cacheCalls = <<"create", "delete">>
          /\ pc = "exit_fatal" => ~CacheLive
          /\ pending # "none" => pc \in {"finally", "exit_exception"})
    /\ [][cacheCalls = <<"create", "delete">>
             => UNCHANGED <<cacheCalls, sent, outbound, fileIdx, result>>]_vars

\* the run died of an assertion in the first session and the cache is gone
C8_Witness ==
    /\ pc = "exit_exception"
    /\ pending = "AssertionError"
    /\ fileIdx = 1
    /\ fileIdx < NumFiles
    /\ cacheCalls = <<"create", "delete">>

\* C9: ensure_no_cache runs before the first file and after the last; a
\* cache found by the first run ends the program before a cache is created
\* or a message sent; the second runs only after the own cache was deleted
\* and every file had its session.
C9_LeakCheck ==
    /\ Len(checks) <= 2
    /\ (cacheCalls # <<>> \/ fileIdx >= 1 \/ sent > 0 \/ user_message # NoMessage)
          => Len(checks) >= 1 /\ checks[1] = {}
    /\ (Len(checks) >= 1 /\ checks[1] # {})
          => /\ pc = "exit_fatal"
             /\ cacheCalls = <<>>
             /\ fileIdx = 0
             /\ sent = 0
             /\ outbound = NoMessage
    /\ Len(checks) = 2
          => /\ cacheCalls = <<"create", "delete">>
             /\ "unit-test-generator" \notin checks[2]
             /\ fileIdx = NumFiles
             /\ \A i \in 1..NumFiles : result[i] \in {"Committed", "AttemptsExhausted"}
             /\ pc = (IF checks[2] = {} THEN "done" ELSE "exit_fatal")
    /\ pc = "done" => Len(checks) = 2

\* the second check found a cache of another run after all files were done
C9_Witness ==
    /\ Len(checks) = 2
    /\ checks[2] # {}
    /\ pc = "exit_fatal"
    /\ ~CacheLive

\* every step moves the program forward in this order
Progress ==
    LET K == 5 * LIMIT + 10
    IN  CASE pc = "main" -> 0
          [] pc = "ensure_first" -> 1
          [] pc = "create" -> 2
          [] pc = "for_files" -> (fileIdx + 1) * K
          [] pc = "send" -> fileIdx * K + 5 * attempt + 1
          [] pc = "dispatch" -> fileIdx * K + 5 * attempt + 2
          [] pc = "git_add" -> fileIdx * K + 5 * attempt + 3
          [] pc = "git_commit" -> fileIdx * K + 5 * attempt + 4
          [] pc = "finally" -> (NumFiles + 1) * K + 1
          [] pc = "ensure_last" -> (NumFiles + 1) * K + 2
          [] OTHER -> (NumFiles + 1) * K + 3

\* the conditions under which the program has a step to take
CanStep ==
    \/ pc \in {"main", "ensure_first", "create", "finally", "ensure_last", "send"}
    \/ pc = "for_files" /\ (has_next_file(fileIdx) => fileIdx + 1 \in DOMAIN result)
    \/ pc = "dispatch" /\ Branch(command) \in {"Ambiguous", "Ineligible",
                                              "WriteTestFile", "Commit", "Neither"}
    \/ pc \in {"git_add", "git_commit"} /\ Truthy(parse_commit_command(command))

\* C10: the files are taken in list order, each session is over (Committed
\* or AttemptsExhausted) before the next file starts, an exhausted session
\* raises nothing and the next file is started; without a fatal condition
\* every file gets exactly one session; the run never stalls before its end
\* and every step brings it closer to it.
C10_Sequential ==
    /\ [](/\ \A i \in 1..NumFiles :
                /\ i < fileIdx => result[i] \in {"Committed", "AttemptsExhausted"}
                /\ i > fileIdx => result[i] = "none"
          /\ InSession => result[fileIdx] = "running"
          /\ (fileIdx >= 1 /\ result[fileIdx] = "AttemptsExhausted")
                => pending = "none" /\ pc # "exit_exception"
          /\ (pc = "for_files" /\ fileIdx >= 1)
                => result[fileIdx] \in {"Committed", "AttemptsExhausted"}
          /\ pc = "done"
                => /\ fileIdx = NumFiles
                   /\ \A i \in 1..NumFiles :
                         result[i] \in {"Committed", "AttemptsExhausted"}
          /\ pc \notin Terminal => CanStep)
    /\ [][/\ Progress' > Progress
          /\ fileIdx' # fileIdx
                => /\ fileIdx' = fileIdx + 1
                   /\ result[fileIdx'] = "none"
                   /\ result'[fileIdx'] = "running"
                   /\ outbound' = NoMessage /\ sent' = 0
          /\ \A i \in 1..NumFiles :
                (result'[i] = "running" /\ result[i] # "running")
                   => i = fileIdx + 1 /\ result[i] = "none"]_vars

\* the second file is being processed after the first ran out of attempts
C10_Witness ==
    /\ NumFiles >= 2
    /\ fileIdx = 2
    /\ result[1] = "AttemptsExhausted"
    /\ pc = "dispatch"
    /\ sent = 1

\* the TEST_COVERAGE: parts of a message
CoverageParts(msg) == {k \in 1..Len(msg) : msg[k][1] = "TEST_COVERAGE:"}

\* C11: the message composed after an eligible WRITE_TEST_FILE was executed
\* starts with TEST_RUN_STATUS: OK exactly when the test runner exited with
\* 0 and with TEST_RUN_STATUS: FAILED otherwise; it has a FAILURE_MESSAGE:
\* part, holding the captured stderr, exactly when the run failed; it always
\* has one TEST_COVERAGE: part, measured on the target file of the session
\* and not on the test file written; a failing run raises nothing and ends
\* nothing: the loop goes on to its next attempt, or ends as exhausted.
C11_RunReport ==
    /\ [](lastRun.ran
            => /\ lastClass = "WriteTestFile"
               /\ user_message[1] =
                     <<"TEST_RUN_STATUS:",
                       IF lastRun.return_code = 0 THEN "OK" ELSE "FAILED">>
               /\ HasKeyword(user_message, "FAILURE_MESSAGE:")
                     <=> lastRun.return_code # 0
               /\ lastRun.return_code # 0
                     => user_message[2] = <<"FAILURE_MESSAGE:", lastRun.stderr>>
               /\ Cardinality(CoverageParts(user_message)) = 1
               /\ lastCov.path = <<FILES_TO_TEST[fileIdx]>>
               /\ lastCov.path \notin DOMAIN disk)
    /\ [][(pc = "dispatch" /\ lastRun'.ran)
             => /\ effects'.testRuns = effects.testRuns + 1
                /\ pending' = "none"
                /\ fileIdx' = fileIdx
                /\ IF attempt + 1 < LIMIT
                   THEN /\ pc' = "send"
                        /\ attempt' = attempt + 1
                        /\ result'[fileIdx] = "running"
                   ELSE /\ pc' = "for_files"
                        /\ result'[fileIdx] = "AttemptsExhausted"]_vars

\* a failed run, with its stderr, is reported in the message about to be sent
C11_Witness ==
    /\ pc = "send"
    /\ attempt >= 1
    /\ lastRun.ran
    /\ lastRun.return_code # 0
    /\ HasPart(user_message, <<"TEST_RUN_STATUS:", "FAILED">>)
    /\ HasPart(user_message, <<"FAILURE_MESSAGE:", "Traceback">>)

\* the positions of a text where a line starts with the END_TEST_FILE keyword
SentinelLines(text) ==
    {k \in 1..Len(text) :
        text[k] = "END_TEST_FILE" /\ (k = 1 \/ text[k - 1] = "\n")}
\* s is a contiguous part of t
Occurs(s, t) ==
    \E i \in 0..(Len(t) - Len(s)) : SubSeq(t, i + 1, i + Len(s)) = s

\* C12: for every reply that matches the WRITE_TEST_FILE pattern the content
\* extracted ends at the first END_TEST_FILE line after the command line: the
\* reply holds the path, a line end, the content, a line end and the
\* sentinel in a row, and no line of the content starts with END_TEST_FILE,
\* so nothing that follows a sentinel line is taken into the file.
C12_ShortestBody ==
    (pc = "dispatch" /\ Truthy(parse_add_file_command(command)))
       => LET add_file_args == parse_add_file_command(command)
          IN  /\ Occurs(add_file_args[1] \o <<"\n">> \o add_file_args[2]
                           \o <<"\n", "END_TEST_FILE">>, command)
              /\ SentinelLines(add_file_args[2]) = {}

\* the replies of the model that are executed as a write, each with the path
\* and the content add_test_file is given for it
ExecutedWrites ==
    { <<WriteBlock(PathGemini1, Body1), PathGemini1, Body1>>,
      <<<<TXT, SP, TXT, NL>> \o WriteBlock(PathGemini1, Body2) \o <<NL, TXT, SP, TXT>>,
        PathGemini1, Body2>>,
      <<WriteBlock(PathGemini2, Body1) \o <<NL, TXT, NL, KW_END_FILE, NL, TXT>>,
        PathGemini2, Body1>>,
      <<WriteBlock(PathGemini1, Body2) \o <<NL>> \o CommitBlock(PathPlain, Body1),
        PathGemini1, Body2>>,
      <<<<KW_WRITE, SP>> \o PathGemini1
            \o <<NL, KW_END_FILE, NL, TXT, NL, KW_END_FILE>>,
        PathGemini1, <<KW_END_FILE, NL, TXT>> >> }

\* C13: a session that ends in AttemptsExhausted ran neither git add nor git
\* commit; no step of the program removes a file from disk or changes one
\* other than the execution of an eligible WRITE_TEST_FILE, which leaves its
\* content at the path it names, over whatever was there, and touches no
\* other path; so at exhaustion every written path holds the content of the
\* last write executed for it.
C13_ExhaustedWorkspace ==
    /\ []((pc = "for_files" /\ fileIdx >= 1 /\ result[fileIdx] = "AttemptsExhausted")
            => /\ gitCalls = <<>>
               /\ effects.writes >= 1 => disk # <<>>
               /\ lastClass = "WriteTestFile"
                     => \E w \in ExecutedWrites :
                           /\ command = w[1]
                           /\ w[2] \in DOMAIN disk
                           /\ disk[w[2]] = w[3])
    /\ [][/\ DOMAIN disk \subseteq DOMAIN disk'
          /\ effects'.writes = effects.writes + 1
                => /\ pc = "dispatch"
                   /\ \E w \in ExecutedWrites :
                         /\ command = w[1]
                         /\ DOMAIN disk' = DOMAIN disk \cup {w[2]}
                         /\ disk'[w[2]] = w[3]
                         /\ \A p \in DOMAIN disk : p # w[2] => disk'[p] = disk[p]
          /\ effects'.writes # effects.writes + 1 => disk' = disk]_vars

\* the session is exhausted, two writes were executed for the same path and
\* the file holds the content of the second
C13_Witness ==
    /\ pc = "for_files"
    /\ fileIdx = 1
    /\ result[1] = "AttemptsExhausted"
    /\ effects.writes = 2
    /\ lastClass = "WriteTestFile"
    /\ command = WriteBlock(PathGemini1, Body1)
    /\ DOMAIN disk = {PathGemini1}
    /\ disk[PathGemini1] = Body1
    /\ HasPart(outbound, <<"TEST_RUN_STATUS:", "OK">>)
    /\ gitCalls = <<>>

\* replies that hold one COMMIT: block for a path with test_gemini_ and no
\* WRITE_TEST_FILE: block
CommitAlone ==
    { CommitBlock(PathGemini1, Body1),
      <<TXT, NL>> \o CommitBlock(PathGemini2, Body2) \o <<NL, TXT>> }

\* C14: a reply that holds a COMMIT: block alone is staged and committed
\* whatever came before it in the session: at every attempt index, with or
\* without a write executed before, after a passing or a failing test run,
\* for a path that was written or one that was not, the dispatch enters
\* git_commit_test_file, git add is run for the path of the reply and, after
\* a status of 0, git commit with the message of the reply.
C14_CommitUngated ==
    /\ [][(pc = "dispatch" /\ command \in CommitAlone)
             => /\ pc' = "git_add"
                /\ lastClass' = "Commit"
                /\ UNCHANGED <<attempt, effects, disk, user_message, gitCalls>>]_vars
    /\ [][(pc = "git_add" /\ command \in CommitAlone)
             => /\ Len(gitCalls') = 1
                /\ gitCalls'[1].op = "add"
                /\ Occurs(<<"COMMIT:", " ">> \o gitCalls'[1].arg \o <<"\n">>, command)
                /\ gitCalls'[1].rc = 0 => pc' = "git_commit"]_vars
    /\ [][(pc = "git_commit" /\ command \in CommitAlone)
             => /\ Len(gitCalls') = 2
                /\ gitCalls'[2].op = "commit"
                /\ Occurs(gitCalls'[1].arg \o <<"\n">> \o gitCalls'[2].arg
                             \o <<"\n", "END_COMMIT_MESSAGE">>, command)
                /\ gitCalls'[2].rc = 0 => result'[fileIdx] = "Committed"]_vars

\* committed at a later attempt, right after a failing test run was reported,
\* for a path that no write of the run ever named
C14_Witness ==
    /\ pc = "for_files"
    /\ fileIdx = 1
    /\ result[1] = "Committed"
    /\ attempt >= 1
    /\ effects.writes >= 1
    /\ HasPart(outbound, <<"TEST_RUN_STATUS:", "FAILED">>)
    /\ gitCalls[1].arg = PathGemini2
    /\ PathGemini2 \notin DOMAIN disk

\* committed at attempt 0 of the first session: no file was ever written
C14_WitnessFirstAttempt ==
    /\ pc = "for_files"
    /\ fileIdx = 1
    /\ result[1] = "Committed"
    /\ attempt = 0
    /\ effects.writes = 0
    /\ disk = <<>>
    /\ Len(gitCalls) = 2

\* the text of the TEST_COVERAGE: part of a message that has one
CoverageOf(msg) == msg[CHOOSE k \in CoverageParts(msg) : TRUE][2]

\* C15: the coverage reported by a message, the first of a session or the one
\* after a test run, is WHOLE_FILE_NOT_COVERED exactly when `coverage
\* annotate` exited with a status other than 0, and otherwise the text read
\* from the annotated file, unchanged: the status of `coverage annotate` and
\* the text decide it alone, for every status of `coverage run`, the first
\* stage; a message holds one of the two, never both.
C15_CoverageSentinel ==
    lastCov # NoCov
       => /\ Cardinality(CoverageParts(user_message)) = 1
          /\ lastCov.rcAnnotate # 0
                => CoverageOf(user_message) = "WHOLE_FILE_NOT_COVERED"
          /\ lastCov.rcAnnotate = 0
                => /\ CoverageOf(user_message) = lastCov.coverRead
                   /\ lastCov.coverRead \in CoverTexts
          /\ CoverageOf(user_message) = "WHOLE_FILE_NOT_COVERED"
                <=> lastCov.rcAnnotate # 0

\* the annotated text is reported after a test run, in a session whose first
\* message reported no coverage at all
C15_Witness ==
    /\ pc = "send"
    /\ attempt = 1
    /\ lastRun.ran
    /\ lastCov.rcAnnotate = 0
    /\ CoverageOf(user_message) = "! x = 1"
    /\ HasPart(outbound, <<"TEST_COVERAGE:", "WHOLE_FILE_NOT_COVERED">>)

\* C16: the instruction to comment out the failing assertions is in a message
\* exactly when that message is the one composed after an eligible
\* WRITE_TEST_FILE in the iteration of attempt index LIMIT-3, it carries the
\* one-attempt-left warning, and the test run of that write failed; the
\* instruction directly follows that warning; it is never in a message with
\* the final-attempt warning, never in one that reports a passing run, and
\* never in a message of another branch or of another attempt index.
C16_CommentOut ==
    /\ HasPart(user_message, PromptCommentOut)
          <=> /\ composedAt = LIMIT - 3
              /\ user_message[1][1] = "TEST_RUN_STATUS:"
              /\ HasPart(user_message, PromptOneMore)
              /\ HasPart(user_message, <<"TEST_RUN_STATUS:", "FAILED">>)
    /\ HasPart(user_message, PromptCommentOut)
          => /\ ~HasPart(user_message, PromptLast)
             /\ ~HasPart(user_message, <<"TEST_RUN_STATUS:", "OK">>)
             /\ \E k \in 1..(Len(user_message) - 1) :
                   /\ user_message[k] = PromptOneMore
                   /\ user_message[k + 1] = PromptCommentOut
    /\ (lastRun.ran /\ composedAt = LIMIT - 3)
          => (HasPart(user_message, PromptCommentOut) <=> lastRun.return_code # 0)
    /\ HasPart(outbound, PromptCommentOut)
          => /\ HasPart(outbound, PromptOneMore)
             /\ HasPart(outbound, <<"TEST_RUN_STATUS:", "FAILED">>)
             /\ ~HasPart(outbound, PromptLast)

\* the instruction is sent, with the one-attempt-left warning, as the message
\* of attempt LIMIT-2
C16_Witness ==
    /\ pc = "dispatch"
    /\ attempt = LIMIT - 2
    /\ HasPart(outbound, PromptOneMore)
    /\ HasPart(outbound, PromptCommentOut)
    /\ HasPart(outbound, <<"TEST_RUN_STATUS:", "FAILED">>)

\* C17: a PROMPT: warning is only ever part of a message that starts with
\* TEST_RUN_STATUS:; the message composed after an ambiguous, an unrecognized
\* or an ineligible reply carries none; the agent receives the
\* one-attempt-left warning only in the message of attempt LIMIT-2 and only
\* when iteration LIMIT-3 executed a write, and the final-attempt warning only
\* in the message of attempt LIMIT-1 and only when iteration LIMIT-2 did: a
\* warning that was not composed at its index is not made up for later.
C17_WarningOnlyWithStatus ==
    /\ [](/\ \A msg \in {user_message, outbound} :
                HasKeyword(msg, "PROMPT:") => msg[1][1] = "TEST_RUN_STATUS:"
          /\ lastClass \in {"Ambiguous", "Ineligible", "Neither"}
                => /\ ~HasKeyword(user_message, "PROMPT:")
                   /\ user_message \in {MsgAmbiguous, MsgBadPrefix, MsgUnrecognized}
          /\ PromptOneMore \in warned => sent >= LIMIT - 1
          /\ PromptLast \in warned => sent = LIMIT)
    /\ [][/\ (PromptOneMore \in warned' /\ PromptOneMore \notin warned)
                => /\ pc = "send"
                   /\ attempt = LIMIT - 2
                   /\ composedAt = LIMIT - 3
                   /\ lastClass = "WriteTestFile"
          /\ (PromptLast \in warned' /\ PromptLast \notin warned)
                => /\ pc = "send"
                   /\ attempt = LIMIT - 1
                   /\ composedAt = LIMIT - 2
                   /\ lastClass = "WriteTestFile"]_vars

\* a session with three writes executed ran out of attempts and the agent
\* was sent neither warning
C17_Witness ==
    /\ pc = "for_files"
    /\ fileIdx >= 1
    /\ result[fileIdx] = "AttemptsExhausted"
    /\ sent = LIMIT
    /\ effects.writes = 3
    /\ warned = {}

\* C18: every iteration sends one message, the one composed last: before the
\* loop for attempt 0, in iteration k-1 for attempt k >= 1; a message is sent
\* nowhere else.  What the iteration of attempt LIMIT-1 composes and the
\* acknowledgement composed after a commit are never sent: the session is
\* over and the next one starts from a new first message.  An eligible
\* WRITE_TEST_FILE at attempt LIMIT-1 is written and run all the same; its
\* report stays unsent and nothing is committed.
C18_LastMessageUnsent ==
    /\ [](/\ pc = "send" => composedAt = attempt - 1 /\ sent = attempt
          /\ pc \in {"dispatch", "git_add", "git_commit"}
                => /\ sent = attempt + 1
                   /\ composedAt = attempt - 1
                   /\ outbound = user_message
          /\ composedAt = LIMIT - 1 => ~InSession
          /\ user_message = MsgThanks
                => ~InSession /\ result[fileIdx] = "Committed"
          /\ outbound # MsgThanks
          /\ (pc = "for_files" /\ fileIdx >= 1
              /\ result[fileIdx] = "AttemptsExhausted" /\ lastClass = "WriteTestFile")
                => /\ composedAt = LIMIT - 1
                   /\ user_message[1][1] = "TEST_RUN_STATUS:"
                   /\ outbound # user_message
                   /\ effects.writes >= 1
                   /\ effects.testRuns = effects.writes
                   /\ gitCalls = <<>>)
    /\ [][/\ sent' \in {sent, sent + 1, 0}
          /\ sent' = sent + 1
                => /\ pc = "send"
                   /\ outbound' = user_message
                   /\ user_message' = user_message
          /\ (sent' = 0 /\ sent # 0)
                => /\ pc = "for_files"
                   /\ outbound' = NoMessage
                   /\ composedAt' = -1
                   /\ user_message'[1][1] = "ADD_TEST_FOR:"
          /\ ~InSession => sent' \in {sent, 0} /\ outbound' \in {outbound, NoMessage}
          /\ (pc = "dispatch" /\ attempt = LIMIT - 1
              /\ command = WriteBlock(PathGemini1, Body1))
                => /\ effects'.writes = effects.writes + 1
                   /\ effects'.testRuns = effects.testRuns + 1
                   /\ disk'[PathGemini1] = Body1
                   /\ user_message'[1][1] = "TEST_RUN_STATUS:"
                   /\ pc' = "for_files"
                   /\ result'[fileIdx] = "AttemptsExhausted"
                   /\ UNCHANGED <<sent, outbound, gitCalls>>]_vars

\* the only write of a session was executed in its last iteration: the file
\* is on disk, the report of the failed run was composed, the last message
\* sent is the one of the iteration before, and the session is exhausted
C18_Witness ==
    /\ pc = "for_files"
    /\ fileIdx = 1
    /\ result[1] = "AttemptsExhausted"
    /\ lastClass = "WriteTestFile"
    /\ composedAt = LIMIT - 1
    /\ effects.writes = 1
    /\ DOMAIN disk = {PathGemini2}
    /\ HasPart(user_message, <<"TEST_RUN_STATUS:", "FAILED">>)
    /\ outbound = MsgUnrecognized
    /\ sent = LIMIT

====
